---------------------------- MODULE Spec2Model ----------------------------
(***************************************************************************)
(* The CRM pages of frontend/src/pages (Kanban, Contacts, Calendar): each  *)
(* page keeps a local collection mirrored from the entity service, with    *)
(* optimistic mutation and snapshot rollback.  The three pages are the     *)
(* same state machine; `page` selects the entity shape, the patched field  *)
(* and whether the cards are rendered while the loading flag is set.       *)
(* Spec follows the synchronizer (load, mutate, create, remove and the      *)
(* entity service answering); SpecProject follows the search projection,   *)
(* SpecCalendar the three sections of the Calendar page, SpecHttp the      *)
(* handlers under any refusal of the service, and SpecPending the          *)
(* synchronizer from a loaded page on which a creation is awaited.         *)
(* A handler runs against the state of the last committed render, and the  *)
(* service may answer calls in any order.                                  *)
(***************************************************************************)
EXTENDS Integers, Sequences, FiniteSets, TLC

VARIABLES
    page,       \* which page component is mounted
    items,      \* useState items (Kanban) / rows (Contacts, Calendar)
    loading,    \* useState loading
    error,      \* useState error: a message, or NoError for null
    server,     \* the entity service's collection, in GET order
    nextId,     \* the identity the service assigns to the next created entity
    calls,      \* the remote calls awaited, in the order they were sent
    ops,        \* how many handlers the user has started
    last,       \* history: the handler step taken last, with the state before it
    synced,     \* history: some load has succeeded with no other call in flight
    loadedAt,   \* history: the ordinal of the latest handler whose load succeeded, -1 for none
    prevLoad,   \* history: the collection left by the last undisturbed load
    settled,    \* history: the PATCH and DELETE calls that settled and the loads that failed
    q,          \* useState q: the search box, a string as a sequence of characters
    filters,    \* Contacts: useState stage, heat, awaiting, onlyReal
    view,       \* useMemo filtered (Contacts, Calendar) / filteredByCol (Kanban)
    input,      \* history: the collection the projection was first computed from
    buckets,    \* Calendar: the three Section lists as last rendered
    now,        \* the clock new Date() reads
    start,      \* Calendar: useState start, the first day of the window
    end         \* Calendar: useState end, the last day of the window

syncVars == <<page, items, loading, error, server, nextId, calls, ops, last, synced, loadedAt,
              prevLoad, settled>>

viewVars == <<q, filters, view, input, buckets, now, start, end>>

vars == <<syncVars, viewVars>>

-----------------------------------------------------------------------------
(* Bounds *)

MaxOps == 2         \* handlers the user starts after the page is mounted
MaxRows == 2        \* length of the collection a projection is computed from
MaxQueryLen == 2    \* characters typed into the search box
MaxDue == 2         \* the latest due timestamp of an obligation, in days from today

-----------------------------------------------------------------------------
(* Data *)

COLUMNS == <<"novo", "qualificacao", "proposta", "fechamento", "ganho", "perdido">>

\* The columns the modelled user moves deals between.
Columns == {COLUMNS[1], COLUMNS[5]}

Pages == {"kanban", "contacts", "calendar"}

NoError == "null"

\* The field a page's mutateField patches.
PatchField(p) ==
    CASE p = "kanban" -> "column"
      [] p = "contacts" -> "is_real"
      [] p = "calendar" -> "status"

\* const today = toISODate(new Date())
Today == 1

\* const weekAhead = toISODate(new Date(Date.now() + 7 * 86400000))
WeekAhead == MaxDue

\* A record as the service returns it, reduced to identity, the patched field
\* and, for an obligation, the day it is due: the second seeded obligation at
\* the end of the week, every other one today.
Entity(p, id, v) ==
    CASE p = "kanban" -> [id |-> id, column |-> v]
      [] p = "contacts" -> [id |-> id, is_real |-> v]
      [] p = "calendar" ->
            [id |-> id, status |-> v, due_date |-> IF id = 2 THEN WeekAhead ELSE Today]

\* The value of that field in the draft the page's quickAdd posts.
DraftValue(p) ==
    CASE p = "kanban" -> "novo"
      [] p = "contacts" -> TRUE
      [] p = "calendar" -> "open"

\* The other value a seeded entity may hold.
OtherValue(p) ==
    CASE p = "kanban" -> "ganho"
      [] p = "contacts" -> FALSE
      [] p = "calendar" -> "done"

\* The creation payload of quickAdd: a record without identity.
Draft(p) ==
    CASE p = "kanban" -> [column |-> "novo"]
      [] p = "contacts" -> [is_real |-> TRUE]
      [] p = "calendar" -> [status |-> "open", due_date |-> Today]

FallbackMessage(p) ==
    CASE p = "kanban" -> "Falha ao carregar pipeline"
      [] p = "contacts" -> "Falha ao carregar contatos"
      [] p = "calendar" -> "Falha ao carregar obrigações"

-----------------------------------------------------------------------------
(* Array helpers of the handlers *)

\* A map that patches every element.
SeqMapAll(arr, id, patch) == [i \in 1..Len(arr) |-> patch @@ arr[i]]

RECURSIVE SeqMap(_, _, _)
\* arr.map((x) => (x.id === id ? { ...x, ...patch } : x))
SeqMap(arr, id, patch) ==
    IF arr = <<>> THEN <<>>
    ELSE <<IF Head(arr).id = id THEN patch @@ Head(arr) ELSE Head(arr)>>
             \o SeqMap(Tail(arr), id, patch)

\* A filter with the test the wrong way round.
SeqFilterInverted(arr, id) == SelectSeq(arr, LAMBDA x : x.id = id)

RECURSIVE SeqFilter(_, _)
\* arr.filter((x) => x.id !== id)
SeqFilter(arr, id) ==
    IF arr = <<>> THEN <<>>
    ELSE (IF Head(arr).id # id THEN <<Head(arr)>> ELSE <<>>) \o SeqFilter(Tail(arr), id)

\* items.slice(): a shallow copy of the array the handler closed over
Slice(arr) == SubSeq(arr, 1, Len(arr))

\* [...it, novo]
PrependAtEnd(novo, it) == it \o <<novo>>

\* [novo, ...it]
Prepend(novo, it) == <<novo>> \o it

\* setItems((it) => [...it, ...ds])
ReplaceAppending(it, ds) == it \o ds

\* setItems(ds) of refresh: the fetched array replaces the state
Replace(it, ds) == ds

Ids(arr) == {arr[i].id : i \in 1..Len(arr)}


-----------------------------------------------------------------------------
(* The search projections.  A string is the sequence of its characters. *)

Sp == <<" ">>

\* String.prototype.toLowerCase on one character of the modelled alphabet
LowerChar(c) == CASE c = "A" -> "a" [] c = "B" -> "b" [] OTHER -> c

\* A toLowerCase() that was left out.
ToLowerCaseSkipped(str) == str

ToLowerCase(str) == [i \in 1..Len(str) |-> LowerChar(str[i])]

RECURSIVE TrimStart(_)
TrimStart(str) ==
    IF str # <<>> /\ Head(str) = " " THEN TrimStart(Tail(str)) ELSE str

RECURSIVE TrimEnd(_)
TrimEnd(str) ==
    IF str # <<>> /\ str[Len(str)] = " " THEN TrimEnd(SubSeq(str, 1, Len(str) - 1)) ELSE str

\* String.prototype.trim
Trim(str) == TrimEnd(TrimStart(str))

\* String.prototype.includes
Includes(hay, s) ==
    \E k \in 0..(Len(hay) - Len(s)) : SubSeq(hay, k + 1, k + Len(s)) = s

RECURSIVE Join(_, _)
\* Array.prototype.join
Join(arr, sep) ==
    IF arr = <<>> THEN <<>>
    ELSE IF Len(arr) = 1 THEN arr[1]
    ELSE arr[1] \o sep \o Join(Tail(arr), sep)

\* x.f || "": an optional text field
OrEmpty(x, f) == IF f \in DOMAIN x THEN x[f] ELSE <<>>

\* const s = q.trim().toLowerCase()
Needle(query) == ToLowerCase(Trim(query))

\* `${c.name} ${c.email || ""} ${c.phone || ""}`.toLowerCase()
ContactHay(c) ==
    ToLowerCase(c.name \o Sp \o OrEmpty(c, "email") \o Sp \o OrEmpty(c, "phone"))

\* `${d.title} ${d.tags?.join(" ") || ""}`.toLowerCase()
DealHay(d) ==
    ToLowerCase(d.title \o Sp \o (IF "tags" \in DOMAIN d THEN Join(d.tags, Sp) ELSE <<>>))

\* `${o.title} ${o.description || ""}`.toLowerCase()
ObligationHay(o) == ToLowerCase(o.title \o Sp \o OrEmpty(o, "description"))

NoFilters == [stage |-> "", heat |-> "", awaiting |-> "", onlyReal |-> FALSE]

\* Contacts: the callback of rows.filter
ContactKept(c, s, f) ==
    IF s # <<>> /\ ~Includes(ContactHay(c), s) THEN FALSE
    ELSE IF f.stage # "" /\ c.stage # f.stage THEN FALSE
    ELSE IF f.heat # "" /\ c.heat # f.heat THEN FALSE
    ELSE IF f.awaiting # "" /\ c.await_status # f.awaiting THEN FALSE
    ELSE IF f.onlyReal /\ ~c.is_real THEN FALSE
    ELSE TRUE

\* Contacts: filtered
ContactsFiltered(rows, query, f) ==
    SelectSeq(rows, LAMBDA c : ContactKept(c, Needle(query), f))

EmptyMap == [c \in {COLUMNS[i] : i \in 1..Len(COLUMNS)} |-> <<>>]

RECURSIVE GroupLoop(_, _, _)

\* A loop that puts each deal at the head of its column: map[d.column].unshift(d)
GroupLoopUnshift(arr, s, map) ==
    IF arr = <<>> THEN map
    ELSE LET d == Head(arr) IN
         IF s # <<>> /\ ~Includes(DealHay(d), s)
         THEN GroupLoop(Tail(arr), s, map)
         ELSE GroupLoop(Tail(arr), s, [map EXCEPT ![d.column] = <<d>> \o @])

\* Kanban: for (const d of items) { if (s) {...continue} map[d.column].push(d) }
GroupLoop(arr, s, map) ==
    IF arr = <<>> THEN map
    ELSE LET d == Head(arr) IN
         IF s # <<>> /\ ~Includes(DealHay(d), s)
         THEN GroupLoop(Tail(arr), s, map)
         ELSE GroupLoop(Tail(arr), s, [map EXCEPT ![d.column] = Append(@, d)])

\* Kanban: filteredByCol
FilteredByCol(arr, query) == GroupLoop(arr, Needle(query), EmptyMap)

\* Calendar: filtered
ObligationsFiltered(rows, query) ==
    SelectSeq(rows, LAMBDA o :
        IF Needle(query) = <<>> THEN TRUE ELSE Includes(ObligationHay(o), Needle(query)))

\* The memoised projection of the mounted page.
Project(p, arr, query, f) ==
    CASE p = "kanban" -> FilteredByCol(arr, query)
      [] p = "contacts" -> ContactsFiltered(arr, query, f)
      [] p = "calendar" -> ObligationsFiltered(arr, query)

\* filter and for...of hand out new arrays: the array they read is as it was.
SourceAfter(arr) == arr

\* Calendar: nothing rendered yet (the page shows "Carregando...").
NoBuckets == [overdue |-> <<>>, upcoming |-> <<>>, done |-> <<>>, at |-> 0]

-----------------------------------------------------------------------------
(* lib/crm.ts *)

StatusMessage(status) == "HTTP " \o ToString(status)

\* const text = await res.text().catch(() => ""): the body read as text, or
\* "" when reading it fails
TextOr(res) == IF res.broken THEN "" ELSE res.text

\* The SyntaxError of JSON.parse, for an empty text and for any other text
\* that is not JSON.
SyntaxError(text) ==
    IF text = "" THEN "Unexpected end of JSON input" ELSE "Unexpected token in JSON"

\* await res.json(): the body parsed, or the rejection of a body that is not
\* JSON
Json(res) ==
    IF res.parses
    THEN [rejected |-> FALSE, message |-> "", value |-> res.json]
    ELSE [rejected |-> TRUE, message |-> SyntaxError(res.text), value |-> <<>>]

\* An http() that takes only a server error for a failure.
HttpLenient(res) ==
    IF res.status >= 500
    THEN [rejected |-> TRUE,
          message |-> IF TextOr(res) # "" THEN TextOr(res) ELSE StatusMessage(res.status),
          value |-> <<>>]
    ELSE Json(res)

\* http(): a non-ok response throws Error(text || `HTTP ${status}`), an ok one
\* returns the parsed body.
Http(res) ==
    IF ~res.ok
    THEN [rejected |-> TRUE,
          message |-> IF TextOr(res) # "" THEN TextOr(res) ELSE StatusMessage(res.status),
          value |-> <<>>]
    ELSE Json(res)

-----------------------------------------------------------------------------
(* Remote calls in flight *)

NoRes ==
    [ok |-> FALSE, status |-> 0, text |-> "", json |-> <<>>, parses |-> FALSE,
     broken |-> FALSE]

NoLoad == [valid |-> FALSE, val |-> <<>>]

\* No call.  prev is the snapshot the handler captured; before, alone, idem
\* and seq are history: the collection when the handler ran, whether no other
\* call was in flight during this one, the collection an undisturbed earlier
\* load left, and the ordinal of the handler among those the user started (0
\* for what was started before them).
NoCall ==
    [kind |-> "none", phase |-> "none", prev |-> <<>>, id |-> 0, body |-> <<>>,
     res |-> NoRes, before |-> <<>>, alone |-> FALSE, idem |-> NoLoad, seq |-> 0]

Slots == 1..Len(calls)

Quiescent == calls = <<>>

\* The user may start another handler.
MayAct == ops < MaxOps

NewCall(kind, prev, id, body) ==
    [kind |-> kind, phase |-> "sent", prev |-> prev, id |-> id, body |-> body,
     res |-> NoRes, before |-> items, alone |-> Quiescent,
     idem |-> IF kind = "load" /\ Quiescent THEN prevLoad ELSE NoLoad,
     seq |-> ops + 1]

\* The handler reaches its await: the call goes out.
Issue(kind, prev, id, body) ==
    [t \in Slots |-> [calls[t] EXCEPT !.alone = FALSE]] \o <<NewCall(kind, prev, id, body)>>

\* The awaited promise settles.
Release(s) == SubSeq(calls, 1, s - 1) \o SubSeq(calls, s + 1, Len(calls))

\* How a call ended.
Outcome(c) == [kind |-> c.kind, id |-> c.id, body |-> c.body, rejected |-> Http(c.res).rejected]

Step(act, c) == [act |-> act, pre |-> items, preError |-> error, call |-> c]

-----------------------------------------------------------------------------
(* The entity service *)

\* A refusal: 404 carries a body text, 500 an empty body.
Failure(status) ==
    [ok |-> FALSE, status |-> status, text |-> IF status = 404 THEN "Not Found" ELSE "",
     json |-> <<>>, parses |-> FALSE, broken |-> FALSE]

\* A 2xx response whose body is the JSON text of that value.
Success(status, json) ==
    [ok |-> TRUE, status |-> status, text |-> "", json |-> json, parses |-> TRUE,
     broken |-> FALSE]

\* The stored record of that identity takes the fields of the partial payload.
Patched(arr, id, body) ==
    [i \in 1..Len(arr) |-> IF arr[i].id = id THEN body @@ arr[i] ELSE arr[i]]

Deleted(arr, id) == SelectSeq(arr, LAMBDA x : x.id # id)

Find(arr, id) == arr[CHOOSE i \in 1..Len(arr) : arr[i].id = id]

\* The records a GET with those query parameters selects: all of them without
\* start and end, else the ones due from start to end.
InRange(arr, query) ==
    IF "start" \in DOMAIN query
    THEN SelectSeq(arr, LAMBDA x : query.start <= x.due_date /\ x.due_date <= query.end)
    ELSE arr

\* GET <path>[?filters]: the ordered sequence of records
ServeGet(s) ==
    /\ calls[s].kind = "load"
    /\ calls' = [calls EXCEPT ![s].phase = "replied",
                              ![s].res = Success(200, InRange(server, calls[s].body))]
    /\ UNCHANGED <<server, nextId>>

\* PATCH <path>/{id}: the updated record; not found for an unknown identity
ServePatch(s) ==
    /\ calls[s].kind = "patch"
    /\ IF calls[s].id \in Ids(server)
       THEN /\ server' = Patched(server, calls[s].id, calls[s].body)
            /\ calls' = [calls EXCEPT ![s].phase = "replied",
                                      ![s].res = Success(200, Find(server', calls[s].id))]
       ELSE /\ calls' = [calls EXCEPT ![s].phase = "replied", ![s].res = Failure(404)]
            /\ UNCHANGED server
    /\ UNCHANGED nextId

\* POST <path>: the created record with the identity the service assigns
ServePost(s) ==
    /\ calls[s].kind = "create"
    /\ LET created == [id |-> nextId] @@ calls[s].body IN
         /\ server' = Append(server, created)
         /\ calls' = [calls EXCEPT ![s].phase = "replied", ![s].res = Success(201, created)]
    /\ nextId' = nextId + 1

\* DELETE <path>/{id}: an acknowledgement; not found for an unknown identity
ServeDelete(s) ==
    /\ calls[s].kind = "delete"
    /\ IF calls[s].id \in Ids(server)
       THEN /\ server' = Deleted(server, calls[s].id)
            /\ calls' = [calls EXCEPT ![s].phase = "replied",
                                      ![s].res = Success(200, [ok |-> TRUE])]
       ELSE /\ calls' = [calls EXCEPT ![s].phase = "replied", ![s].res = Failure(404)]
            /\ UNCHANGED server
    /\ UNCHANGED nextId

\* Any request may be refused with a non-2xx response and no effect.
ServeError(s) ==
    /\ calls' = [calls EXCEPT ![s].phase = "replied", ![s].res = Failure(500)]
    /\ UNCHANGED <<server, nextId>>

\* What every answer shares: the call was sent, the page is not touched.
Serve(s) ==
    /\ calls[s].phase = "sent"
    /\ UNCHANGED <<viewVars, settled, page, items, loading, error, ops, last, synced,
                   loadedAt, prevLoad>>

Replied(s, kind) == calls[s].kind = kind /\ calls[s].phase = "replied"

-----------------------------------------------------------------------------
(* The page component *)

\* Kanban and Calendar render the cards only when loading is false; the
\* Contacts table renders its rows always.
Rendered == page = "contacts" \/ ~loading

\* listDeals(), listContacts(): no query; listObligations({ start, end })
Params(p, from, to) == IF p = "calendar" THEN [start |-> from, end |-> to] ELSE <<>>

\* refresh(), up to the await
Refresh ==
    /\ MayAct
    /\ ops' = ops + 1
    /\ loading' = TRUE
    /\ calls' = Issue("load", <<>>, 0, Params(page, start, end))
    /\ last' = Step("Refresh", calls'[Len(calls')])
    /\ UNCHANGED <<viewVars, settled, page, items, error, server, nextId, synced, loadedAt,
                   prevLoad>>

\* refresh(), the await resolved: setItems(ds); finally setLoading(false)
LoadResolve(s) ==
    /\ Replied(s, "load")
    /\ ~Http(calls[s].res).rejected
    /\ items' = Replace(items, Http(calls[s].res).value)
    /\ loading' = FALSE
    /\ synced' = (synced \/ calls[s].alone)
    /\ loadedAt' = IF calls[s].seq > loadedAt THEN calls[s].seq ELSE loadedAt
    /\ prevLoad' = IF calls[s].alone THEN [valid |-> TRUE, val |-> items'] ELSE NoLoad
    /\ calls' = Release(s)
    /\ last' = Step("LoadResolve", calls[s])
    /\ UNCHANGED <<viewVars, settled, ops, page, error, server, nextId>>

\* e?.message || "Falha ao carregar ..."
LoadErrorMessage(message) == IF message # "" THEN message ELSE FallbackMessage(page)

\* refresh() without its finally block.
LoadRejectNoFinally(s) ==
    /\ Replied(s, "load")
    /\ Http(calls[s].res).rejected
    /\ error' = LoadErrorMessage(Http(calls[s].res).message)
    /\ calls' = Release(s)
    /\ last' = Step("LoadReject", calls[s])
    /\ settled' = settled \cup {Outcome(calls[s])}
    /\ UNCHANGED <<viewVars, ops, page, items, loading, server, nextId, synced, loadedAt, prevLoad>>

\* refresh(), the await rejected: setError(...); finally setLoading(false)
LoadReject(s) ==
    /\ Replied(s, "load")
    /\ Http(calls[s].res).rejected
    /\ error' = LoadErrorMessage(Http(calls[s].res).message)
    /\ loading' = FALSE
    /\ calls' = Release(s)
    /\ last' = Step("LoadReject", calls[s])
    /\ settled' = settled \cup {Outcome(calls[s])}
    /\ UNCHANGED <<viewVars, ops, page, items, server, nextId, synced, loadedAt, prevLoad>>

\* A handler that takes its snapshot after patching.
MutateFieldLateSnapshot(act, id, patch) ==
    /\ MayAct
    /\ ops' = ops + 1
    /\ items' = SeqMap(items, id, patch)
    /\ calls' = Issue("patch", Slice(items'), id, patch)
    /\ last' = Step(act, calls'[Len(calls')])
    /\ prevLoad' = NoLoad
    /\ UNCHANGED <<viewVars, settled, page, loading, error, server, nextId, synced, loadedAt>>

\* The optimistic half shared by move, toggleReal and toggleDone:
\* snapshot, patch the matching entity, send the PATCH.
MutateField(act, id, patch) ==
    /\ MayAct
    /\ ops' = ops + 1
    /\ items' = SeqMap(items, id, patch)
    /\ calls' = Issue("patch", Slice(items), id, patch)
    /\ last' = Step(act, calls'[Len(calls')])
    /\ prevLoad' = NoLoad
    /\ UNCHANGED <<viewVars, settled, page, loading, error, server, nextId, synced, loadedAt>>

\* if (d.column === to) return;  No snapshot, no setItems, no call: the step
\* is recorded (with the handler's arguments) and nothing else changes.
Return(act, id, patch) ==
    /\ MayAct
    /\ last' = Step(act, [NoCall EXCEPT !.id = id, !.body = patch])
    /\ UNCHANGED <<viewVars, settled, ops, page, items, loading, error, server, nextId, calls,
                   synced, loadedAt, prevLoad>>

\* A move without its first line.
MoveUnguarded(i, to) ==
    /\ page = "kanban"
    /\ Rendered
    /\ MutateField("Move", items[i].id, [column |-> to])

\* Kanban: move(d, to), d a rendered card
Move(i, to) ==
    /\ page = "kanban"
    /\ Rendered
    /\ IF items[i].column = to
       THEN Return("MoveSame", items[i].id, [column |-> to])
       ELSE MutateField("Move", items[i].id, [column |-> to])

\* Contacts: toggleReal(c.id, c.is_real), c a rendered row
ToggleReal(i) ==
    /\ page = "contacts"
    /\ Rendered
    /\ MutateField("ToggleReal", items[i].id, [is_real |-> ~items[i].is_real])

\* Calendar: toggleDone(o), o a rendered obligation
ToggleDone(i) ==
    /\ page = "calendar"
    /\ Rendered
    /\ MutateField("ToggleDone", items[i].id,
                   [status |-> IF items[i].status = "done" THEN "open" ELSE "done"])

\* try { await update...(...) } resolved: nothing more to do
PatchResolve(s) ==
    /\ Replied(s, "patch")
    /\ ~Http(calls[s].res).rejected
    /\ calls' = Release(s)
    /\ last' = Step("PatchResolve", calls[s])
    /\ settled' = settled \cup {Outcome(calls[s])}
    /\ UNCHANGED <<viewVars, ops, page, items, loading, error, server, nextId, synced,
                   loadedAt, prevLoad>>

\* A catch that leaves the optimistic state in place.
RollbackDropped(it, prev) == it

\* catch { setItems(prev) }
Rollback(it, prev) == prev

\* A catch that sends the PATCH again.
PatchRejectResending(s) ==
    /\ Replied(s, "patch")
    /\ Http(calls[s].res).rejected
    /\ items' = Rollback(items, calls[s].prev)
    /\ calls' = Release(s) \o <<[calls[s] EXCEPT !.phase = "sent", !.res = NoRes]>>
    /\ last' = Step("PatchReject", calls[s])
    /\ settled' = settled \cup {Outcome(calls[s])}
    /\ prevLoad' = NoLoad
    /\ UNCHANGED <<viewVars, ops, page, loading, error, server, nextId, synced, loadedAt>>

\* try { await update...(...) } catch { setItems(prev) }: the await rejected
PatchReject(s) ==
    /\ Replied(s, "patch")
    /\ Http(calls[s].res).rejected
    /\ items' = Rollback(items, calls[s].prev)
    /\ calls' = Release(s)
    /\ last' = Step("PatchReject", calls[s])
    /\ settled' = settled \cup {Outcome(calls[s])}
    /\ prevLoad' = NoLoad
    /\ UNCHANGED <<viewVars, ops, page, loading, error, server, nextId, synced, loadedAt>>

\* quickAdd() that shows the draft before the service answers.
QuickAddOptimistic ==
    /\ MayAct
    /\ ops' = ops + 1
    /\ items' = Prepend(Entity(page, 0, DraftValue(page)), items)
    /\ calls' = Issue("create", <<>>, 0, Draft(page))
    /\ last' = Step("QuickAdd", calls'[Len(calls')])
    /\ prevLoad' = NoLoad
    /\ UNCHANGED <<viewVars, settled, page, loading, error, server, nextId, synced, loadedAt>>

\* quickAdd(), up to the await: the prompts answered, the draft posted
QuickAdd ==
    /\ MayAct
    /\ ops' = ops + 1
    /\ calls' = Issue("create", <<>>, 0, Draft(page))
    /\ last' = Step("QuickAdd", calls'[Len(calls')])
    /\ prevLoad' = NoLoad
    /\ UNCHANGED <<viewVars, settled, page, items, loading, error, server, nextId, synced,
                   loadedAt>>

\* quickAdd(), the await resolved: setItems((it) => [novo, ...it])
CreateResolve(s) ==
    /\ Replied(s, "create")
    /\ ~Http(calls[s].res).rejected
    /\ items' = Prepend(Http(calls[s].res).value, items)
    /\ calls' = Release(s)
    /\ last' = Step("CreateResolve", calls[s])
    /\ prevLoad' = NoLoad
    /\ UNCHANGED <<viewVars, settled, ops, page, loading, error, server, nextId, synced, loadedAt>>

\* quickAdd(), the await rejected: no catch, the rejection leaves the handler
CreateReject(s) ==
    /\ Replied(s, "create")
    /\ Http(calls[s].res).rejected
    /\ calls' = Release(s)
    /\ last' = Step("CreateReject", calls[s])
    /\ UNCHANGED <<viewVars, settled, ops, page, items, loading, error, server, nextId,
                   synced, loadedAt, prevLoad>>

\* remove(id), confirmed, up to the await
Remove(i) ==
    /\ Rendered
    /\ MayAct
    /\ ops' = ops + 1
    /\ items' = SeqFilter(items, items[i].id)
    /\ calls' = Issue("delete", Slice(items), items[i].id, <<>>)
    /\ last' = Step("Remove", calls'[Len(calls')])
    /\ prevLoad' = NoLoad
    /\ UNCHANGED <<viewVars, settled, page, loading, error, server, nextId, synced, loadedAt>>

\* try { await delete...(id) } resolved
DeleteResolve(s) ==
    /\ Replied(s, "delete")
    /\ ~Http(calls[s].res).rejected
    /\ calls' = Release(s)
    /\ last' = Step("DeleteResolve", calls[s])
    /\ settled' = settled \cup {Outcome(calls[s])}
    /\ UNCHANGED <<viewVars, ops, page, items, loading, error, server, nextId, synced,
                   loadedAt, prevLoad>>

\* A catch that also shows the failure.
DeleteRejectReporting(s) ==
    /\ Replied(s, "delete")
    /\ Http(calls[s].res).rejected
    /\ items' = Rollback(items, calls[s].prev)
    /\ error' = Http(calls[s].res).message
    /\ calls' = Release(s)
    /\ last' = Step("DeleteReject", calls[s])
    /\ settled' = settled \cup {Outcome(calls[s])}
    /\ prevLoad' = NoLoad
    /\ UNCHANGED <<viewVars, ops, page, loading, server, nextId, synced, loadedAt>>

\* try { await delete...(id) } catch { setItems(prev) }: the await rejected
DeleteReject(s) ==
    /\ Replied(s, "delete")
    /\ Http(calls[s].res).rejected
    /\ items' = Rollback(items, calls[s].prev)
    /\ calls' = Release(s)
    /\ last' = Step("DeleteReject", calls[s])
    /\ settled' = settled \cup {Outcome(calls[s])}
    /\ prevLoad' = NoLoad
    /\ UNCHANGED <<viewVars, ops, page, loading, error, server, nextId, synced, loadedAt>>

-----------------------------------------------------------------------------
(* Specification *)

\* The service's collection when the page is opened.
Seed(p) == <<Entity(p, 1, DraftValue(p)), Entity(p, 2, OtherValue(p))>>

\* The component is mounted: the state hooks hold their initial values and the
\* mount effect has called refresh().
Init ==
    /\ page \in Pages
    /\ start = Today
    /\ end = WeekAhead
    /\ items = <<>>
    /\ loading = TRUE
    /\ error = NoError
    /\ server = Seed(page)
    /\ nextId = 3
    /\ calls = <<[NoCall EXCEPT !.kind = "load", !.phase = "sent", !.alone = TRUE,
                                !.body = Params(page, start, end)]>>
    /\ ops = 0
    /\ last = [act |-> "mount", pre |-> <<>>, preError |-> NoError, call |-> NoCall]
    /\ synced = FALSE
    /\ loadedAt = -1
    /\ prevLoad = NoLoad
    /\ settled = {}
    /\ q = <<>>
    /\ filters = NoFilters
    /\ view = <<>>
    /\ input = <<>>
    /\ buckets = NoBuckets
    /\ now = 0

\* The synchronizer's steps; the search box is left empty and the projection
\* is not followed (SpecProject does that).
Next ==
    \/ Refresh
    \/ QuickAdd
    \/ \E i \in 1..Len(items) : \E to \in Columns : Move(i, to)
    \/ \E i \in 1..Len(items) : ToggleReal(i)
    \/ \E i \in 1..Len(items) : ToggleDone(i)
    \/ \E i \in 1..Len(items) : Remove(i)
    \/ \E s \in Slots : Serve(s) /\ ServeGet(s)
    \/ \E s \in Slots : Serve(s) /\ ServePatch(s)
    \/ \E s \in Slots : Serve(s) /\ ServePost(s)
    \/ \E s \in Slots : Serve(s) /\ ServeDelete(s)
    \/ \E s \in Slots : Serve(s) /\ ServeError(s)
    \/ \E s \in Slots : LoadResolve(s)
    \/ \E s \in Slots : LoadReject(s)
    \/ \E s \in Slots : PatchResolve(s)
    \/ \E s \in Slots : PatchReject(s)
    \/ \E s \in Slots : CreateResolve(s)
    \/ \E s \in Slots : CreateReject(s)
    \/ \E s \in Slots : DeleteResolve(s)
    \/ \E s \in Slots : DeleteReject(s)

Spec == Init /\ [][Next]_vars

-----------------------------------------------------------------------------
(* Properties of the synchronizer *)

Without(arr, id) == SelectSeq(arr, LAMBDA x : x.id # id)

Range(arr) == {arr[i] : i \in 1..Len(arr)}

\* C1: when the PATCH of a move/toggleReal/toggleDone rejects, the collection
\* right after the rollback equals the collection as it was when the handler
\* was started, whatever was started or settled in between.
C1_RollbackRestoresBefore ==
    last.act = "PatchReject" => items = last.call.before

\* A rollback that undoes more than nothing, with another call overlapping.
C1_Witness ==
    /\ last.act = "PatchReject"
    /\ ~last.call.alone
    /\ items # last.pre

\* C2: a remove with no other call in flight ends with the collection without
\* that identity (the rest kept in order) when the DELETE resolves, and with
\* the collection as it was when the DELETE rejects.
C2_RemoveAlone ==
    /\ last.act = "DeleteResolve" /\ last.call.alone
          => items = Without(last.call.before, last.call.id)
    /\ last.act = "DeleteReject" /\ last.call.alone
          => items = last.call.before

C2_Witness ==
    /\ last.act = "DeleteResolve"
    /\ last.call.alone
    /\ last.call.id \in Ids(last.call.before)
    /\ items # <<>>

\* C2, the failing branch reached as well.
C2_WitnessReject ==
    /\ last.act = "DeleteReject"
    /\ last.call.alone
    /\ items # last.pre

Accepted(kind, id, body) ==
    \E a \in settled : a.kind = kind /\ a.id = id /\ a.body = body /\ ~a.rejected

ShowsPatch(x, body) == \A k \in DOMAIN body : x[k] = body[k]

\* C3: once every call has settled, no rejected mutation shows: a rejected
\* patch is not on its entity and an entity whose delete was rejected is
\* there (unless a call that the service accepted did the same).
C3_NoRejectedEffect ==
    Quiescent =>
        \A r \in settled : r.rejected =>
            /\ r.kind = "patch" =>
                  \/ Accepted("patch", r.id, r.body)
                  \/ \A i \in 1..Len(items) :
                        items[i].id = r.id => ~ShowsPatch(items[i], r.body)
            /\ r.kind = "delete" =>
                  \/ Accepted("delete", r.id, r.body)
                  \/ r.id \in Ids(items)
                  \/ r.id \notin Ids(server)

\* C4: once a load has succeeded undisturbed, whenever no call is in flight the
\* collection holds exactly the service's records.
C4_ConsistentWhenQuiescent ==
    synced /\ Quiescent => Range(items) = Range(server)

\* C5: when the POST of quickAdd resolves, the returned record is put first and
\* the rest is the collection as it was just before.
C5_CreatePrepends ==
    last.act = "CreateResolve" =>
        /\ items = <<last.call.res.json>> \o last.pre
        /\ items[1].id \notin Ids(Seed(page))

\* The response is applied to a collection that changed while it was awaited.
C5_Witness ==
    /\ last.act = "CreateResolve"
    /\ last.pre # <<>>
    /\ last.pre # last.call.before

\* C6: quickAdd inserts nothing before the service answers, and when the POST
\* rejects neither the collection nor the error message changes.
C6_CreateNotOptimistic ==
    /\ last.act = "QuickAdd" => items = last.pre /\ error = last.preError
    /\ last.act = "CreateReject" =>
          /\ items = last.pre
          /\ error = last.preError

C6_Witness ==
    /\ last.act = "CreateReject"
    /\ items # <<>>

\* C7: a load that succeeds replaces the collection by the fetched sequence; a
\* load that fails leaves the collection and sets an error message; both clear
\* the loading flag.
C7_LoadSettles ==
    /\ last.act = "LoadResolve" =>
          /\ items = last.call.res.json
          /\ ~loading
    /\ last.act = "LoadReject" =>
          /\ items = last.pre
          /\ error # NoError /\ error # ""
          /\ ~loading

\* A failed load over a collection that is there already.
C7_Witness ==
    /\ last.act = "LoadReject"
    /\ items # <<>>
    /\ last.preError = NoError

\* C8: no two elements of the collection have the same identity.
C8_UniqueIds ==
    Cardinality(Ids(items)) = Len(items)

\* C9: a load that follows an undisturbed successful load, with nothing else
\* started in between, leaves the collection the first one left.
C9_LoadIdempotent ==
    last.act = "LoadResolve" /\ last.call.alone /\ last.call.idem.valid
        => items = last.call.idem.val

C9_Witness ==
    /\ last.act = "LoadResolve"
    /\ last.call.alone
    /\ last.call.idem.valid
    /\ items # <<>>

-----------------------------------------------------------------------------
(* The projection under typing and filter selection *)

QueryChars == {"a", "B", " "}

Titles == {<<"a">>, <<"A", "b">>}

\* Deals to project: with and without tags.
DealRows ==
    {[title |-> t, column |-> c] : t \in Titles, c \in Columns}
      \cup {[title |-> t, column |-> c, tags |-> g] :
               t \in Titles, c \in Columns, g \in {<< <<"b">> >>, << <<"a">>, <<"B">> >>}}

\* Contacts to project: with and without email and phone.
ContactRows ==
    {[name |-> <<"a">>, stage |-> "lead", heat |-> "warm", await_status |-> "none",
      is_real |-> TRUE],
     [name |-> <<"A", "b">>, email |-> <<"b">>, stage |-> "client", heat |-> "hot",
      await_status |-> "awaiting_us", is_real |-> FALSE],
     [name |-> <<"b">>, phone |-> <<"a">>, stage |-> "lead", heat |-> "hot",
      await_status |-> "none", is_real |-> TRUE],
     [name |-> <<"B">>, email |-> <<"a">>, phone |-> <<"b">>, stage |-> "client",
      heat |-> "warm", await_status |-> "awaiting_us", is_real |-> TRUE]}

\* Obligations to project: with and without description.
ObligationRows ==
    {[title |-> t, status |-> "open"] : t \in Titles}
      \cup {[title |-> t, status |-> st, description |-> d] :
               t \in Titles, st \in {"done"}, d \in {<<"b">>, <<"a", " ", "B">>}}

RowsOf(p) ==
    CASE p = "kanban" -> DealRows
      [] p = "contacts" -> ContactRows
      [] p = "calendar" -> ObligationRows

\* The collections of up to MaxRows rows, identities 1, 2, ... in order.
Collections(p) ==
    UNION {{[i \in 1..n |-> [id |-> i] @@ f[i]] : f \in [1..n -> RowsOf(p)]} : n \in 0..MaxRows}

StageChoices == {"", "lead", "client"}
HeatChoices == {"", "hot"}
AwaitChoices == {"", "none"}

\* A render after the state hooks changed: useMemo recomputes the projection.
Render(query, f) ==
    /\ q' = query
    /\ filters' = f
    /\ view' = Project(page, items, query, f)
    /\ items' = SourceAfter(items)
    /\ UNCHANGED <<input, buckets, now, start, end, page, loading, error, server, nextId, calls, ops,
                   last, synced, loadedAt, prevLoad, settled>>

\* onChange of the search box: setQ(e.target.value)
TypeChar(c) ==
    /\ Len(q) < MaxQueryLen
    /\ Render(Append(q, c), filters)

\* Contacts: onChange of the stage select
SetStage(v) ==
    /\ page = "contacts"
    /\ v # filters.stage
    /\ Render(q, [filters EXCEPT !.stage = v])

\* Contacts: onChange of the heat select
SetHeat(v) ==
    /\ page = "contacts"
    /\ v # filters.heat
    /\ Render(q, [filters EXCEPT !.heat = v])

\* Contacts: onChange of the awaiting select
SetAwaiting(v) ==
    /\ page = "contacts"
    /\ v # filters.awaiting
    /\ Render(q, [filters EXCEPT !.awaiting = v])

\* Contacts: onChange of the "Só reais" checkbox
SetOnlyReal ==
    /\ page = "contacts"
    /\ Render(q, [filters EXCEPT !.onlyReal = ~@])

\* A loaded page, nothing in flight, and its first render.
InitProject ==
    /\ page \in Pages
    /\ items \in Collections(page)
    /\ input = items
    /\ q = <<>>
    /\ filters = NoFilters
    /\ view = Project(page, items, q, filters)
    /\ loading = FALSE
    /\ error = NoError
    /\ server = items
    /\ nextId = Len(items) + 1
    /\ calls = <<>>
    /\ ops = 0
    /\ last = [act |-> "mount", pre |-> <<>>, preError |-> NoError, call |-> NoCall]
    /\ synced = TRUE
    /\ loadedAt = 0
    /\ prevLoad = NoLoad
    /\ settled = {}
    /\ buckets = NoBuckets
    /\ now = 0
    /\ start = Today
    /\ end = WeekAhead

NextProject ==
    \/ \E c \in QueryChars : TypeChar(c)
    \/ \E v \in StageChoices : SetStage(v)
    \/ \E v \in HeatChoices : SetHeat(v)
    \/ \E v \in AwaitChoices : SetAwaiting(v)
    \/ SetOnlyReal

SpecProject == InitProject /\ [][NextProject]_vars

-----------------------------------------------------------------------------
(* Properties of the projection *)

SameLetter(c, d) == c = d \/ {c, d} \in {{"a", "A"}, {"b", "B"}}

\* query occurs in text, letter case ignored
ContainsCI(text, query) ==
    \E k \in 0..(Len(text) - Len(query)) :
        \A j \in 1..Len(query) : SameLetter(text[k + j], query[j])

Field(x, f) == IF f \in DOMAIN x THEN x[f] ELSE <<>>

Words(x) == IF "tags" \in DOMAIN x THEN x.tags ELSE <<>>

RECURSIVE Spaced(_)
Spaced(ws) == IF ws = <<>> THEN <<>> ELSE Sp \o Head(ws) \o Spaced(Tail(ws))

\* The designated searchable text: the fields in order, a space between them.
SearchText(x) ==
    CASE page = "contacts" -> x.name \o Sp \o Field(x, "email") \o Sp \o Field(x, "phone")
      [] page = "kanban" -> IF Words(x) = <<>> THEN x.title \o Sp ELSE x.title \o Spaced(Words(x))
      [] page = "calendar" -> x.title \o Sp \o Field(x, "description")

\* query without the spaces around it
Stripped(query) ==
    LET solid == {i \in 1..Len(query) : query[i] # " "} IN
    IF solid = {} THEN <<>>
    ELSE SubSeq(query, CHOOSE i \in solid : \A j \in solid : i <= j,
                       CHOOSE i \in solid : \A j \in solid : i >= j)

\* Contacts: the row passes the stage, heat, awaiting and only-real selections.
PassesSelections(x) ==
    page = "contacts" =>
        /\ filters.stage # "" => x.stage = filters.stage
        /\ filters.heat # "" => x.heat = filters.heat
        /\ filters.awaiting # "" => x.await_status = filters.awaiting
        /\ filters.onlyReal => x.is_real

ViewLists == IF page = "kanban" THEN {view[c] : c \in DOMAIN view} ELSE {view}

ViewElements == UNION {Range(l) : l \in ViewLists}

RECURSIVE SumLen(_, _)
SumLen(map, cols) ==
    IF cols = {} THEN 0
    ELSE LET c == CHOOSE c \in cols : TRUE IN Len(map[c]) + SumLen(map, cols \ {c})

ViewSize == IF page = "kanban" THEN SumLen(view, DOMAIN view) ELSE Len(view)

\* C10 as stated (no stage, heat, awaiting or only-real selection made): the
\* projection holds exactly the elements whose searchable text contains q,
\* letter case ignored, and the collection is untouched.
C10_ContainsQuery ==
    filters = NoFilters =>
        /\ ViewElements = {x \in Range(items) : ContainsCI(SearchText(x), q)}
        /\ items = input

\* C10 amended: the projection holds exactly the elements that pass the page's
\* other selections and whose searchable text contains q with the white space
\* around it removed, letter case ignored, each once; with nothing left of q
\* and no selection made that is every element; the collection is untouched.
C10_ContainsTrimmedQuery ==
    /\ ViewElements =
          {x \in Range(items) : PassesSelections(x) /\ ContainsCI(SearchText(x), Stripped(q))}
    /\ ViewSize = Cardinality(ViewElements)
    /\ Stripped(q) = <<>> /\ filters = NoFilters => ViewElements = Range(items)
    /\ items = input

\* A query with a space before it, matched by some elements and not by others,
\* letter case differing.
C10_Witness ==
    /\ Len(q) = 2 /\ q[1] = " " /\ q[2] = "B"
    /\ ViewElements # {}
    /\ ViewElements # Range(items)

-----------------------------------------------------------------------------
(* Calendar: the three sections *)

\* +new Date(o.due_date): the due timestamp as a number
Time(o) == o.due_date

\* filtered.filter((o) => o.status === "open" && new Date(o.due_date) < new Date())
Overdue(arr, clock) == SelectSeq(arr, LAMBDA o : o.status = "open" /\ Time(o) < clock)

\* filtered.filter((o) => o.status === "open" && new Date(o.due_date) >= new Date())
Upcoming(arr, clock) == SelectSeq(arr, LAMBDA o : o.status = "open" /\ Time(o) >= clock)

\* filtered.filter((o) => o.status === "done")
Done(arr) == SelectSeq(arr, LAMBDA o : o.status = "done")

\* A comparator with its operands the wrong way round.
ByDueReversed(a, b) == Time(b) - Time(a)

\* (a, b) => +new Date(a.due_date) - +new Date(b.due_date)
ByDue(a, b) == Time(a) - Time(b)

RECURSIVE Insert(_, _)
\* x goes in front of the first element the comparator places after it
Insert(sorted, x) ==
    IF sorted = <<>> THEN <<x>>
    ELSE IF ByDue(Head(sorted), x) > 0 THEN <<x>> \o sorted
    ELSE <<Head(sorted)>> \o Insert(Tail(sorted), x)

RECURSIVE Sort(_)
\* Array.prototype.sort with that comparator: a stable sort
Sort(data) ==
    IF data = <<>> THEN <<>>
    ELSE Insert(Sort(SubSeq(data, 1, Len(data) - 1)), data[Len(data)])

\* <Section data={overdue} />, <Section data={upcoming} />, <Section data={done} />:
\* each sorts the array it was handed, which is the array its filter returned.
\* The clock is read by every test; it may advance between the two passes.
Sections(arr, clock, later) ==
    [overdue |-> Sort(Overdue(arr, clock)),
     upcoming |-> Sort(Upcoming(arr, later)),
     done |-> Sort(Done(arr)),
     at |-> clock]

MaxNow == MaxDue + 1

\* Obligations to bucket: open and done, due at those timestamps.
DueRows ==
    {[title |-> t, status |-> st, due_date |-> d] :
        t \in Titles, st \in {"open", "done"}, d \in 1..MaxDue}

DueCollections ==
    UNION {{[i \in 1..n |-> [id |-> i] @@ f[i]] : f \in [1..n -> DueRows]} : n \in 0..MaxRows}

Queries == {<<>>, <<"B">>}

\* A render of the Calendar page with loading false: useMemo recomputes
\* filtered, the three filters and the three Section sorts run.
RenderCalendar(query) ==
    /\ page = "calendar"
    /\ ~loading
    /\ q' = query
    /\ view' = ObligationsFiltered(items, query)
    /\ \E later \in {now, now + 1} :
          /\ later <= MaxNow
          /\ now' = later
          /\ buckets' = Sections(view', now, later)
    /\ items' = SourceAfter(items)
    /\ UNCHANGED <<filters, input, start, end, page, loading, error, server, nextId, calls,
                   ops, last, synced, loadedAt, prevLoad, settled>>

\* onChange of the search box: setQ(e.target.value), then the render
SetQ(query) ==
    /\ query # q
    /\ RenderCalendar(query)

\* Time passes; nothing renders.
Tick ==
    /\ now < MaxNow
    /\ now' = now + 1
    /\ UNCHANGED <<syncVars, q, filters, view, input, buckets, start, end>>

\* The Calendar page loaded, nothing in flight, and its first render.
InitCalendar ==
    /\ page = "calendar"
    /\ items \in DueCollections
    /\ input = items
    /\ q = <<>>
    /\ filters = NoFilters
    /\ view = ObligationsFiltered(items, q)
    /\ now \in 1..MaxNow
    /\ start = Today
    /\ end = WeekAhead
    /\ buckets = Sections(view, now, now)
    /\ loading = FALSE
    /\ error = NoError
    /\ server = items
    /\ nextId = Len(items) + 1
    /\ calls = <<>>
    /\ ops = 0
    /\ last = [act |-> "mount", pre |-> <<>>, preError |-> NoError, call |-> NoCall]
    /\ synced = TRUE
    /\ loadedAt = 0
    /\ prevLoad = NoLoad
    /\ settled = {}

NextCalendar ==
    \/ \E query \in Queries : SetQ(query)
    \/ Tick

SpecCalendar == InitCalendar /\ [][NextCalendar]_vars

\* The obligations the search box lets through.
Matching == {x \in Range(items) : ContainsCI(SearchText(x), Stripped(q))}

\* earlier due, earlier place
Ascending(l) == \A i, j \in 1..Len(l) : l[i].due_date < l[j].due_date => i < j

\* C11: at every render the overdue section holds exactly the open obligations
\* (of those the search lets through) due before the clock reading, each of the
\* three sections lists an earlier due timestamp before a later one, and the
\* collection itself and the searched list are in the order they were.
C11_BucketsAscending ==
    /\ Range(buckets.overdue) =
          {x \in Matching : x.status = "open" /\ x.due_date < buckets.at}
    /\ Len(buckets.overdue) = Cardinality(Range(buckets.overdue))
    /\ Ascending(buckets.overdue)
    /\ Ascending(buckets.upcoming)
    /\ Ascending(buckets.done)
    /\ items = input
    /\ view = SelectSeq(items, LAMBDA x : x \in Matching)

\* Two overdue obligations that the collection holds latest first.
C11_Witness ==
    /\ Len(buckets.overdue) = 2
    /\ Len(items) = 2
    /\ items[1].due_date > items[2].due_date
    /\ buckets.overdue = <<items[2], items[1]>>
    /\ q # <<>>

-----------------------------------------------------------------------------
(* http() under any refusal *)

\* Response.ok: the status is in the range 200-299
Ok(status) == status \in 200..299

RefusalStatuses == {304, 400, 404, 500}

RefusalTexts == {"", "Not Found"}

\* fetch resolves with a non-2xx response: any such status, with or without a
\* body text, the body readable or not.  The service has done nothing.
Refuse(s, status, text, broken) ==
    /\ calls' = [calls EXCEPT ![s].phase = "replied",
                              ![s].res = [ok |-> Ok(status), status |-> status, text |-> text,
                                          json |-> <<>>, parses |-> FALSE,
                                          broken |-> broken]]
    /\ UNCHANGED <<server, nextId>>

\* The page loaded, nothing in flight, one handler left to start.
InitHttp ==
    /\ page \in Pages
    /\ items = Seed(page)
    /\ loading = FALSE
    /\ error = NoError
    /\ server = Seed(page)
    /\ nextId = 3
    /\ calls = <<>>
    /\ ops = MaxOps - 1
    /\ last = [act |-> "mount", pre |-> <<>>, preError |-> NoError, call |-> NoCall]
    /\ synced = TRUE
    /\ loadedAt = 0
    /\ prevLoad = [valid |-> TRUE, val |-> items]
    /\ settled = {}
    /\ q = <<>>
    /\ filters = NoFilters
    /\ view = <<>>
    /\ input = <<>>
    /\ buckets = NoBuckets
    /\ now = 0
    /\ start = Today
    /\ end = WeekAhead

NextHttp ==
    \/ Next
    \/ \E s \in Slots : \E status \in RefusalStatuses : \E text \in RefusalTexts :
          \E broken \in BOOLEAN : Serve(s) /\ Refuse(s, status, text, broken)

SpecHttp == InitHttp /\ [][NextHttp]_vars

Resolutions == {"LoadResolve", "PatchResolve", "CreateResolve", "DeleteResolve"}

\* the body text when there is one that can be read, else "HTTP <status>"
FailureMessage(res) ==
    IF res.text # "" /\ ~res.broken THEN res.text ELSE "HTTP " \o ToString(res.status)

\* C12: for a response whose status is outside 200-299 the helper rejects, with
\* the body text as message, or "HTTP <status>" when the body is empty or
\* unreadable; no handler continues as after a success, and a load shows that
\* message.
C12_NonOkRejects ==
    /\ \A s \in Slots :
          calls[s].phase = "replied" /\ calls[s].res.status \notin 200..299 =>
              /\ Http(calls[s].res).rejected
              /\ Http(calls[s].res).message = FailureMessage(calls[s].res)
    /\ last.act \in Resolutions => last.call.res.status \in 200..299
    /\ last.act = "LoadReject" => error = FailureMessage(last.call.res)

\* A refusal whose body text could not be read.
C12_Witness ==
    /\ last.act = "LoadReject"
    /\ last.call.res.text # ""
    /\ last.call.res.broken
    /\ error = "HTTP 404"

-----------------------------------------------------------------------------
(* Requests *)

\* The requests waiting for the service in that sequence of calls.
Unanswered(cs) == Len(SelectSeq(cs, LAMBDA c : c.phase = "sent"))

Rejections == {"LoadReject", "PatchReject", "CreateReject", "DeleteReject"}

\* C13: a step in which the user starts a handler sends exactly one request,
\* and no other step (an answer of the service, a call settling either way)
\* sends any.
C13_NoRetry ==
    [][ /\ ops' = ops + 1 =>
              /\ Len(calls') = Len(calls) + 1
              /\ Unanswered(calls') = Unanswered(calls) + 1
        /\ ops' = ops =>
              /\ Len(calls') <= Len(calls)
              /\ Unanswered(calls') <= Unanswered(calls)
        /\ last'.act \in Rejections /\ last' # last => Len(calls') = Len(calls) - 1 ]_vars

\* Every handler the user may start has been started, a call was rejected and
\* nothing is in flight.
C13_Witness ==
    /\ last.act \in Rejections
    /\ ops = MaxOps
    /\ Quiescent

-----------------------------------------------------------------------------
(* The error message *)

LoadFailed == \E r \in settled : r.kind = "load" /\ r.rejected

\* C14: an error message is there only when some load has failed; a rejected
\* PATCH or DELETE puts the snapshot back and leaves the message as it was, and
\* so does every step of a handler other than the failing load.
C14_ErrorOnlyFromLoad ==
    /\ error # NoError => LoadFailed
    /\ last.act \in {"PatchReject", "DeleteReject"} =>
          /\ items = last.call.prev
          /\ error = last.preError
    /\ last.act \notin {"mount", "LoadReject"} => error = last.preError

\* A rejected mutation rolled back on a page that shows no error message.
C14_Witness ==
    /\ last.act \in {"PatchReject", "DeleteReject"}
    /\ items # last.pre
    /\ error = NoError

-----------------------------------------------------------------------------
(* Overlapping mutations *)

Mutations == {"Move", "ToggleReal", "ToggleDone"}

\* The element of that identity shows that patch.
Shows(arr, id, body) == \E i \in 1..Len(arr) : arr[i].id = id /\ ShowsPatch(arr[i], body)

\* C15, the mechanism: the snapshot of a move/toggleReal/toggleDone is the
\* whole collection as the handler found it, optimistic results of calls still
\* in flight included, and a rejected PATCH puts that whole snapshot back.
C15_SnapshotIsWholeCollection ==
    /\ last.act \in Mutations =>
          /\ last.call.prev = last.pre
          /\ \A s \in Slots :
                calls[s].kind = "patch" /\ Shows(last.pre, calls[s].id, calls[s].body)
                    /\ calls[s].id # last.call.id
                    => Shows(last.call.prev, calls[s].id, calls[s].body)
    /\ last.act = "PatchReject" => items = last.call.prev

\* C15, the race: two PATCHes in flight at once on different entities, the
\* second one's snapshot holding the optimistic result of the first; the first
\* is rejected and its rollback takes the second one's patch, which is still
\* awaited, out of the collection.
C15_Witness ==
    /\ last.act = "PatchReject"
    /\ \E s \in Slots :
          /\ calls[s].kind = "patch"
          /\ calls[s].id # last.call.id
          /\ calls[s].prev = SeqMap(last.call.prev, last.call.id, last.call.body)
          /\ calls[s].prev # last.call.prev
          /\ Shows(last.pre, calls[s].id, calls[s].body)
          /\ ~Shows(items, calls[s].id, calls[s].body)

\* C16: right after move/toggleReal/toggleDone has started, and until a call
\* settles, the collection is the one the handler found, same length and same
\* order, with the patch on the element of the chosen identity (its other
\* fields kept) and every other element as it was.
C16_OptimisticAndLocal ==
    last.act \in Mutations =>
        /\ Len(items) = Len(last.pre)
        /\ \A i \in 1..Len(items) :
              IF last.pre[i].id = last.call.id
              THEN /\ ShowsPatch(items[i], last.call.body)
                   /\ DOMAIN items[i] = DOMAIN last.pre[i]
                   /\ \A k \in DOMAIN items[i] \ DOMAIN last.call.body :
                         items[i][k] = last.pre[i][k]
              ELSE items[i] = last.pre[i]

\* The PATCH is still awaited and the second element shows the patch.
C16_Witness ==
    /\ last.act \in Mutations
    /\ \E s \in Slots : calls[s].phase = "sent" /\ calls[s].id = last.call.id
                          /\ calls[s].kind = "patch"
    /\ Len(items) = 2
    /\ items[2] # last.pre[2]
    /\ items[1] = last.pre[1]

-----------------------------------------------------------------------------
(* The kanban columns *)

\* The deal is let through by the search box.
Matches(d) == ContainsCI(SearchText(d), Stripped(q))

\* C17: the kanban projection has one list for each of the six columns; the
\* list of a column is the collection's matching deals of that column, in the
\* collection's order, so the lists together hold each matching deal once.
C17_ColumnsPartition ==
    page = "kanban" =>
        /\ DOMAIN view = {COLUMNS[i] : i \in 1..Len(COLUMNS)}
        /\ \A c \in DOMAIN view :
              view[c] = SelectSeq(items, LAMBDA d : d.column = c /\ Matches(d))
        /\ ViewSize = Cardinality({d \in Range(items) : Matches(d)})
        /\ \A d \in Range(items) :
              Matches(d) => Cardinality({c \in DOMAIN view : d \in Range(view[c])}) = 1

\* Two matching deals in one column and a query typed.
C17_Witness ==
    /\ page = "kanban"
    /\ q # <<>>
    /\ Stripped(q) # <<>>
    /\ Len(view["ganho"]) = 2
    /\ view["ganho"][1].title # view["ganho"][2].title

\* One deal shown in its column, the other filtered out.
C17_WitnessFiltered ==
    /\ page = "kanban"
    /\ Len(items) = 2
    /\ ViewSize = 1
    /\ Len(view["novo"]) = 1
    /\ view["novo"][1] = items[2]

-----------------------------------------------------------------------------
(* Dismissing the error message *)

\* C18, by a successful load: once a load started with nothing else in flight
\* has succeeded, the page shows no error message.
C18_ClearedBySuccessfulLoad ==
    last.act = "LoadResolve" /\ last.call.alone => error = NoError

\* What the pages do instead: no step takes a message away.
ErrorStays == [][error # NoError => error' # NoError]_vars

-----------------------------------------------------------------------------
(* Moving a deal to the column it is in *)

Moves == {"Move", "MoveSame"}

\* The deal of that identity is there, in that column (every card of it, should
\* the collection hold it twice).
InColumn(arr, id, body) ==
    /\ id \in Ids(arr)
    /\ \A i \in 1..Len(arr) : arr[i].id = id => ShowsPatch(arr[i], body)

\* C19: a move of a deal to the column it is in takes no snapshot, leaves the
\* collection as it is and sends nothing: the calls in flight are the ones
\* there were.
C19_MoveToSameColumn ==
    [][ last' # last /\ last'.act \in Moves
           /\ InColumn(items, last'.call.id, last'.call.body)
        => /\ last'.call.kind = "none"
           /\ last'.call.prev = <<>>
           /\ items' = items
           /\ calls' = calls
           /\ UNCHANGED <<loading, error, server, ops>> ]_vars

\* Such a move made while a PATCH of an earlier move is awaited.
C19_Witness ==
    /\ last.act = "MoveSame"
    /\ \E s \in Slots : calls[s].kind = "patch"
    /\ InColumn(items, last.call.id, last.call.body)

-----------------------------------------------------------------------------
(* A rollback after a later load *)

\* The page loaded and "+ Novo" pressed: the POST of quickAdd is awaited, and
\* the user goes on.
InitPending ==
    /\ page \in Pages
    /\ items = Seed(page)
    /\ loading = FALSE
    /\ error = NoError
    /\ server = Seed(page)
    /\ nextId = 3
    /\ calls = <<[NoCall EXCEPT !.kind = "create", !.phase = "sent", !.body = Draft(page),
                                !.before = items, !.alone = TRUE]>>
    /\ ops = 0
    /\ last = Step("QuickAdd", calls[1])
    /\ synced = TRUE
    /\ loadedAt = 0
    /\ prevLoad = NoLoad
    /\ settled = {}
    /\ q = <<>>
    /\ filters = NoFilters
    /\ view = <<>>
    /\ input = <<>>
    /\ buckets = NoBuckets
    /\ now = 0
    /\ start = Today
    /\ end = WeekAhead

SpecPending == InitPending /\ [][Next]_vars

Rollbacks == {"PatchReject", "DeleteReject"}

\* The rejected call's snapshot was taken before a load that has succeeded was
\* started.
StaleSnapshot == last.act \in Rollbacks /\ last.call.seq < loadedAt

\* C20: when a PATCH or DELETE rejects after a load that was started later than
\* its handler has succeeded, the collection stays as that step found it: the
\* older snapshot does not take the place of what was loaded.
C20_NoStaleRollback ==
    StaleSnapshot => items = last.pre

-----------------------------------------------------------------------------
(* Calendar: the window *)

\* The days the two date inputs are set to.
Days == Today..WeekAhead

\* A render with a new start or end: the effect on [start, end] calls
\* refresh(), which reads the new values.
WindowChanged(act, from, to) ==
    /\ page = "calendar"
    /\ MayAct
    /\ ops' = ops + 1
    /\ start' = from
    /\ end' = to
    /\ loading' = TRUE
    /\ calls' = Issue("load", <<>>, 0, Params(page, from, to))
    /\ last' = Step(act, calls'[Len(calls')])
    /\ prevLoad' = NoLoad
    /\ UNCHANGED <<q, filters, view, input, buckets, now, settled, page, items, error, server,
                   nextId, synced, loadedAt>>

\* onChange of the "De" input: setStart(e.target.value)
SetStart(v) ==
    /\ v # start
    /\ WindowChanged("SetStart", v, end)

\* onChange of the "Até" input: setEnd(e.target.value)
SetEnd(v) ==
    /\ v # end
    /\ WindowChanged("SetEnd", start, v)

\* The Calendar page mounted, its first load in flight.
InitWindow == Init /\ page = "calendar"

\* The loads of the Calendar page and the service answering them.
NextWindow ==
    \/ \E v \in Days : SetStart(v)
    \/ \E v \in Days : SetEnd(v)
    \/ Refresh
    \/ \E s \in Slots : Serve(s) /\ ServeGet(s)
    \/ \E s \in Slots : Serve(s) /\ ServeError(s)
    \/ \E s \in Slots : LoadResolve(s)
    \/ \E s \in Slots : LoadReject(s)

SpecWindow == InitWindow /\ [][NextWindow]_vars

LoadInFlight == \E s \in Slots : calls[s].kind = "load"

\* C21: once every load has settled, none of them having failed, the
\* collection is what the service answers for the window now selected.
C21_CurrentWindowLoaded ==
    page = "calendar" /\ ~LoadInFlight /\ ~LoadFailed =>
        items = InRange(server, Params(page, start, end))

----------------------------------------------------------------------------
(* The loading flag *)

\* C22: the loading flag is set in every state in which a load is in flight,
\* overlapping loads included; it is clear only when no load is in flight.
C22_LoadingWhileInFlight == LoadInFlight => loading

----------------------------------------------------------------------------
(* http() under an acknowledgement without JSON *)

\* 204 No Content, and 200 with a plain text
AckStatuses == {200, 204}

AckText(status) == IF status = 204 THEN "" ELSE "OK"

\* PATCH or DELETE <path>/{id}: the service does what was asked and
\* acknowledges with a 2xx response whose body is empty or is not JSON.
Acknowledge(s, status) ==
    /\ calls[s].kind \in {"patch", "delete"}
    /\ calls[s].id \in Ids(server)
    /\ server' = IF calls[s].kind = "patch"
                 THEN Patched(server, calls[s].id, calls[s].body)
                 ELSE Deleted(server, calls[s].id)
    /\ calls' = [calls EXCEPT ![s].phase = "replied",
                              ![s].res = [ok |-> Ok(status), status |-> status,
                                          text |-> AckText(status), json |-> <<>>,
                                          parses |-> FALSE, broken |-> FALSE]]
    /\ UNCHANGED nextId

NextAck ==
    \/ Next
    \/ \E s \in Slots : \E status \in AckStatuses : Serve(s) /\ Acknowledge(s, status)

SpecAck == InitHttp /\ [][NextAck]_vars

\* C23: a call answered with a status in 200-299 is never handled as a
\* failure; a PATCH or DELETE acknowledged so, with an empty or non-JSON body,
\* keeps the optimistic change: nothing is rolled back.
C23_OkNeverFails ==
    /\ last.act \in Rejections => last.call.res.status \notin 200..299
    /\ last.act \in {"PatchReject", "DeleteReject"} /\ last.call.res.status \in 200..299 =>
          items = last.pre

=============================================================================
